---- MODULE Spec2Model ----
(***************************************************************************)
(* Movie Match (src/code.py): the persistent list/preference store and the *)
(* recommendation matching engine.                                         *)
(*                                                                         *)
(* Text is modelled as a sequence of symbols.  A symbol is either one of   *)
(* the characters the code treats specially (",", ":", ".", " ", a digit)  *)
(* or a chunk that stands for a non-empty run of ordinary characters       *)
(* ("Drama", "X").  split, strip, join, lower and the f-strings of the     *)
(* code act on these sequences as they act on Python strings.              *)
(***************************************************************************)
EXTENDS Integers, Sequences, FiniteSets, TLC

(***************************************************************************)
(* Bounds of the model                                                     *)
(***************************************************************************)
MaxCatalog == 4
MaxRuns == 2
MaxWatchedLines == 3
MaxWatchLater == 2
MaxPrefLen == 3

(***************************************************************************)
(* Python string operations                                                *)
(***************************************************************************)
\* str.lower() on one symbol
LowerSym(c) ==
    CASE c = "X" -> "x"
      [] c = "Y" -> "y"
      [] c = "Z" -> "z"
      [] c = "T" -> "t"
      [] c = "H" -> "h"
      [] c = "O" -> "o"
      [] c = "L" -> "l"
      [] c = "Drama" -> "drama"
      [] c = "Comedy" -> "comedy"
      [] c = "Horror" -> "horror"
      [] c = "Joy" -> "joy"
      [] OTHER -> c

\* str.lower()
Lower(s) == [k \in 1..Len(s) |-> LowerSym(s[k])]

IsSpace(c) == c = " "

RECURSIVE LStrip(_)
LStrip(s) ==
    IF s = <<>> THEN <<>>
    ELSE IF IsSpace(Head(s)) THEN LStrip(Tail(s)) ELSE s

RECURSIVE RStrip(_)
RStrip(s) ==
    IF s = <<>> THEN <<>>
    ELSE IF IsSpace(s[Len(s)]) THEN RStrip(SubSeq(s, 1, Len(s) - 1)) ELSE s

\* str.strip()
Strip(s) == RStrip(LStrip(s))

\* position of the first occurrence of sep in s, 0 when there is none
RECURSIVE FirstAt(_, _, _)
FirstAt(s, sep, k) ==
    IF k > Len(s) THEN 0
    ELSE IF s[k] = sep THEN k ELSE FirstAt(s, sep, k + 1)

\* str.split(sep): always at least one field
RECURSIVE Split(_, _)
Split(s, sep) ==
    LET k == FirstAt(s, sep, 1)
    IN  IF k = 0 THEN <<s>>
        ELSE <<SubSeq(s, 1, k - 1)>> \o Split(SubSeq(s, k + 1, Len(s)), sep)

\* str.split(sep, 1): at most two fields
SplitOnce(s, sep) ==
    LET k == FirstAt(s, sep, 1)
    IN  IF k = 0 THEN <<s>>
        ELSE <<SubSeq(s, 1, k - 1), SubSeq(s, k + 1, Len(s))>>

\* sep.join(list)
RECURSIVE Join(_, _)
Join(list, sep) ==
    IF list = <<>> THEN <<>>
    ELSE IF Len(list) = 1 THEN list[1]
    ELSE list[1] \o <<sep>> \o Join(Tail(list), sep)

\* str.replace(sym, ""): every occurrence removed
RECURSIVE Remove(_, _)
Remove(s, sym) ==
    IF s = <<>> THEN <<>>
    ELSE IF Head(s) = sym THEN Remove(Tail(s), sym)
    ELSE <<Head(s)>> \o Remove(Tail(s), sym)

\* [Strip(t) for t in list if Strip(t)]
RECURSIVE StripNonEmpty(_)
StripNonEmpty(list) ==
    IF list = <<>> THEN <<>>
    ELSE IF Strip(Head(list)) = <<>> THEN StripNonEmpty(Tail(list))
    ELSE <<Strip(Head(list))>> \o StripNonEmpty(Tail(list))

Digits == <<"0", "1", "2", "3", "4", "5", "6", "7", "8", "9">>

\* the decimal text of a natural number, as the f-string formats it
RECURSIVE NumStr(_)
NumStr(n) ==
    IF n < 10 THEN <<Digits[n + 1]>>
    ELSE NumStr(n \div 10) \o <<Digits[(n % 10) + 1]>>

Range(s) == {s[k] : k \in 1..Len(s)}

(***************************************************************************)
(* User State Store: the three files                                       *)
(***************************************************************************)
VARIABLES
    watchedFile,      \* watched.txt: a sequence of lines
    watchLaterFile,   \* watch_later.txt: its content (empty when absent)
    prefsFile         \* preferences.txt: a sequence of lines

\* the first field split at every "." instead of the first one
ReadWatchedLineMut(raw) ==
    LET line == Strip(raw)
        parts == Split(line, ":")
        number_title == Split(parts[1], ".")
    IN  IF line = <<>> THEN <<>>
        ELSE IF Len(parts) # 3 THEN <<>>
        ELSE IF Len(number_title) # 2 THEN <<>>
        ELSE << [number |-> number_title[1], title |-> number_title[2],
                 review |-> parts[2], status |-> parts[3]] >>

\* one line of watched.txt parsed, <<>> when it is skipped
ReadWatchedLine(raw) ==
    LET line == Strip(raw)
        parts == Split(line, ":")
        number_title == SplitOnce(parts[1], ".")
    IN  IF line = <<>> THEN <<>>
        ELSE IF Len(parts) # 3 THEN <<>>
        ELSE IF Len(number_title) # 2 THEN <<>>
        ELSE << [number |-> number_title[1], title |-> number_title[2],
                 review |-> parts[2], status |-> parts[3]] >>

RECURSIVE read_watched(_)
read_watched(file) ==
    IF file = <<>> THEN <<>>
    ELSE ReadWatchedLine(Head(file)) \o read_watched(Tail(file))

read_watch_later(content) ==
    LET c == Strip(content)
    IN  IF c = <<>> THEN <<>> ELSE StripNonEmpty(Split(c, ","))

EmptyPreferences == [Genres |-> <<>>, Emotions |-> <<>>, Year |-> <<>>]

\* the lists split on commas without dropping the empty entries
ReadPreferencesLineMut(preferences, raw) ==
    LET line == Strip(raw)
    IN  IF line # <<>> /\ Head(line) = "Genres:"
        THEN [preferences EXCEPT !.Genres = Split(Strip(Remove(line, "Genres:")), ",")]
        ELSE IF line # <<>> /\ Head(line) = "Emotions:"
        THEN [preferences EXCEPT !.Emotions = Split(Strip(Remove(line, "Emotions:")), ",")]
        ELSE IF line # <<>> /\ Head(line) = "Year:"
        THEN [preferences EXCEPT !.Year = Strip(Remove(line, "Year:"))]
        ELSE preferences

\* the effect of one line of preferences.txt on the dictionary being built
ReadPreferencesLine(preferences, raw) ==
    LET line == Strip(raw)
    IN  IF line # <<>> /\ Head(line) = "Genres:"
        THEN [preferences EXCEPT
                 !.Genres = StripNonEmpty(Split(Strip(Remove(line, "Genres:")), ","))]
        ELSE IF line # <<>> /\ Head(line) = "Emotions:"
        THEN [preferences EXCEPT
                 !.Emotions = StripNonEmpty(Split(Strip(Remove(line, "Emotions:")), ","))]
        ELSE IF line # <<>> /\ Head(line) = "Year:"
        THEN [preferences EXCEPT !.Year = Strip(Remove(line, "Year:"))]
        ELSE preferences

RECURSIVE ReadPreferencesFrom(_, _)
ReadPreferencesFrom(preferences, file) ==
    IF file = <<>> THEN preferences
    ELSE ReadPreferencesFrom(ReadPreferencesLine(preferences, Head(file)), Tail(file))

read_preferences(file) == ReadPreferencesFrom(EmptyPreferences, file)

\* the three lines write_preferences writes
write_preferences(preferences) ==
    << <<"Genres:">> \o Join(preferences.Genres, ","),
       <<"Emotions:">> \o Join(preferences.Emotions, ","),
       <<"Year:">> \o preferences.Year >>

\* the line append_watched appends to the file it reads
WatchedLine(file, title, review, status) ==
    LET number == Len(read_watched(file)) + 1
    IN  NumStr(number) \o <<".">> \o title \o <<":">> \o review \o <<":">> \o status

\* the file opened with 'w': the new line replaces the old ones
append_watched_mut(file, title, review, status) ==
    <<WatchedLine(file, title, review, status)>>

\* the file opened with 'a'
append_watched(file, title, review, status) ==
    Append(file, WatchedLine(file, title, review, status))

append_watch_later(content, title) ==
    Join(Append(read_watch_later(content), title), ",")

\* the removal that takes the entry after the one asked for
remove_watch_later_mut(content, index) ==
    LET watch_later == read_watch_later(content)
    IN  IF 0 <= index /\ index + 1 < Len(watch_later)
        THEN [content |-> Join(SubSeq(watch_later, 1, index + 1)
                                 \o SubSeq(watch_later, index + 3, Len(watch_later)), ","),
              removed |-> <<watch_later[index + 2]>>,
              printed |-> <<>>,
              raised |-> <<>>]
        ELSE [content |-> content, removed |-> <<>>,
              printed |-> <<"Invalid index.">>, raised |-> <<>>]

\* remove_watch_later: the new content, the removed title (<<>> for None), what
\* is printed, and the exception that leaves the function (<<>>: it returns)
remove_watch_later(content, index) ==
    LET watch_later == read_watch_later(content)
    IN  IF 0 <= index /\ index < Len(watch_later)
        THEN [content |-> Join(SubSeq(watch_later, 1, index)
                                 \o SubSeq(watch_later, index + 2, Len(watch_later)), ","),
              removed |-> <<watch_later[index + 1]>>,
              printed |-> <<>>,
              raised |-> <<>>]
        ELSE [content |-> content, removed |-> <<>>,
              printed |-> <<"Invalid index.">>, raised |-> <<>>]

(***************************************************************************)
(* Catalog Store: rows of the two TSV tables, as csv.DictReader gives them *)
(***************************************************************************)
\* a field holding decimal text (val) or other text; the rating is in hundredths
Num(n) == [kind |-> "num", val |-> n]
NaNText == [kind |-> "nan", val |-> 0]
OtherText == [kind |-> "text", val |-> 0]

Movie(id, title, year, genres) ==
    [tconst |-> id, originalTitle |-> title, startYear |-> year, genres |-> genres]

Rating(id, avg, votes) == [tconst |-> id, averageRating |-> avg, numVotes |-> votes]

\* int(text): the ValueError cases
IntFails(f) == f.kind # "num"

\* float(text): "nan" parses, other non-numeric text raises ValueError
FloatFails(f) == f.kind = "text"

NoBand == <<>>
BandOld == <<"old">>
BandMiddle == <<"middle">>
BandNew == <<"new">>
BandVeryNew == <<"very", " ", "new">>

\* the last band without its upper limit
categorize_year_mut(year) ==
    IF IntFails(year) THEN NoBand
    ELSE IF year.val <= 1999 THEN BandOld
    ELSE IF 2000 <= year.val /\ year.val <= 2009 THEN BandMiddle
    ELSE IF 2010 <= year.val /\ year.val <= 2019 THEN BandNew
    ELSE BandVeryNew

\* the band of a year field; NoBand stands for None
categorize_year(year) ==
    IF IntFails(year) THEN NoBand
    ELSE IF year.val <= 1999 THEN BandOld
    ELSE IF 2000 <= year.val /\ year.val <= 2009 THEN BandMiddle
    ELSE IF 2010 <= year.val /\ year.val <= 2019 THEN BandNew
    ELSE IF 2020 <= year.val /\ year.val <= 2024 THEN BandVeryNew
    ELSE NoBand

\* ratings_dict.get(tconst): the last row with that id; <<>> stands for None
RECURSIVE RatingsLookup(_, _)
RatingsLookup(ratings, id) ==
    IF ratings = <<>> THEN <<>>
    ELSE IF ratings[Len(ratings)].tconst = id THEN <<ratings[Len(ratings)]>>
    ELSE RatingsLookup(SubSeq(ratings, 1, Len(ratings) - 1), id)

(***************************************************************************)
(* Matching Engine: the gates of recommend_based_on_preferences            *)
(***************************************************************************)
\* a limit of four instead of three
MaxRecommendedMut == 3 + 1

MaxRecommended == 3
RatingThreshold == 650
VotesThreshold == 50000

\* sum(1 for x in list if x.strip().lower() in prefLower)
CountMatches(list, prefLower) ==
    Cardinality({k \in 1..Len(list) : Lower(Strip(list[k])) \in Range(prefLower)})

LowerAll(list) == [k \in 1..Len(list) |-> Lower(list[k])]

\* two matches required only from three preferences on
RequiredMatchesMut(prefList) == IF Len(prefList) > 2 THEN 2 ELSE 1

RequiredMatches(prefList) == IF Len(prefList) >= 2 THEN 2 ELSE 1

MovieGenres(movie) == IF movie.genres # <<>> THEN Split(movie.genres, ",") ELSE <<>>

GenreGatePasses(movie, prefs) ==
    ~(CountMatches(MovieGenres(movie), LowerAll(prefs.Genres))
        < RequiredMatches(prefs.Genres))

YearGatePasses(movie, prefs) ==
    LET movie_year_category == categorize_year(movie.startYear)
    IN  ~(movie_year_category = NoBand
          \/ (prefs.Year # <<>> /\ movie_year_category # prefs.Year))

DedupGatePasses(movie, watchedTitles, watchLaterTitles) ==
    ~(Lower(movie.originalTitle) \in Range(watchedTitles)
      \/ Lower(movie.originalTitle) \in Range(watchLaterTitles))

\* average_rating <= 6.5 is False for NaN
RatingTooLow(avg) == avg.kind = "num" /\ avg.val <= RatingThreshold

RatingGatePasses(movie, ratings) ==
    LET found == RatingsLookup(ratings, movie.tconst)
    IN  IF found = <<>> THEN FALSE
        ELSE IF FloatFails(found[1].averageRating) \/ IntFails(found[1].numVotes)
        THEN FALSE
        ELSE ~(RatingTooLow(found[1].averageRating)
               \/ found[1].numVotes.val <= VotesThreshold)

\* what fetch_most_supported_review returns: None, or the review text
NoReview == [some |-> FALSE, text |-> <<>>]
ReviewText(t) == [some |-> TRUE, text |-> t]

\* "not review_text"
\* a test that lets None through and stops only the empty text
ReviewAbsentMut(r) == r.some /\ r.text = <<>>

\* not review: None or the empty text
ReviewAbsent(r) == ~r.some \/ r.text = <<>>

\* the top three labels of the classifier's ranking, lowercased
analyze_emotions(text, ranking) ==
    IF Strip(text) = <<>> THEN <<>>
    ELSE LowerAll(SubSeq(ranking, 1, IF Len(ranking) < 3 THEN Len(ranking) ELSE 3))

EmotionGatePasses(emotions, prefs) ==
    ~(CountMatches(emotions, LowerAll(prefs.Emotions))
        < RequiredMatches(prefs.Emotions))

\* the review fetch moved in front of the rating check
GateOrderMut == <<"genre", "year", "dedup", "review", "rating", "emotion">>

\* the order in which the loop body applies the gates
GateOrder == <<"genre", "year", "dedup", "rating", "review", "emotion">>

GateIndex(g) == CHOOSE k \in 1..Len(GateOrder) : GateOrder[k] = g

NextGate(g) ==
    IF GateIndex(g) = Len(GateOrder) THEN "accept" ELSE GateOrder[GateIndex(g) + 1]

(***************************************************************************)
(* What the external collaborators can answer                              *)
(***************************************************************************)
FetchResults == {NoReview, ReviewText(<<>>), ReviewText(<<"review">>)}

ClassifierRankings ==
    { << <<"Joy">>, <<"sadness">>, <<"anger">>, <<"fear">> >>,
      << <<"sadness">>, <<"love">>, <<"joy">>, <<"anger">> >>,
      << <<"anger">>, <<"fear">>, <<"love">>, <<"joy">> >> }

(***************************************************************************)
(* State of a session: the loaded tables, the engine's locals, and what    *)
(* the engine has been observed to do                                      *)
(***************************************************************************)
VARIABLES
    catalog,             \* full_titles, in file order
    ratings,             \* the rows of title.ratings.tsv
    pc,                  \* where the session is: "idle" or a place in the engine
    run,                 \* how many times recommend_movie has been chosen
    i,                   \* index of the current candidate (0 before the first)
    preferences,         \* the engine's preferences argument
    recommended,         \* the engine's result list
    watched_titles,      \* lowercased Watched titles, read at the start of the run
    watch_later_titles,  \* lowercased WatchLater titles, read at the start of the run
    review_text,         \* the result of the last review fetch
    emotions,            \* the result of the last emotion analysis
    log,                 \* what this run has done so far, oldest first
    wlAtStart,           \* read_watch_later() as it was when this run started
    acceptedBefore,      \* the titles accepted by the earlier runs
    notSet,              \* the last recommend_movie reported "preferences are not set"
    lastWritten,         \* the argument of the last write_preferences call (<<>> before)
    lastRemove,          \* the call RemoveAt made last: index, list before, result (<<>> before)
    appended,            \* the append_watched calls so far: number, title, review, status
    new_movies,          \* renew_preferences: the movies entered in this session
    prefsBefore,         \* read_preferences() when the last renewal began (<<>> before)
    typed                \* what is typed in this session, and the sentiments of the reviews

storeVars == <<watchedFile, watchLaterFile, prefsFile>>
tableVars == <<catalog, ratings, typed>>
engineVars == <<pc, run, i, preferences, recommended, watched_titles,
                watch_later_titles, review_text, emotions, log, wlAtStart, acceptedBefore, notSet>>
sessionVars == <<lastRemove, appended, new_movies, prefsBefore>>
vars == <<storeVars, tableVars, engineVars, lastWritten, sessionVars>>

\* what a user may type at the prompts: titles and reviews for the Watched list,
\* titles for the Watch Later list; the sentiments TextBlob gives to the reviews
UserTitles == { <<"X">>, <<"Y", ":", "Z">> }
UserReviews == { <<"good">>, <<"so", ":", "so">> }
Sentiments == { <<"like">>, <<"dislike">> }
UserLaterTitles == { <<"X">>, <<"Y", ",", "Z">> }

\* the texts a user types at the prompts of a session
Typed(titles, reviews, sentiments, later) ==
    [titles |-> titles, reviews |-> reviews, sentiments |-> sentiments, later |-> later]

Event(idx, ev, gate) == [idx |-> idx, ev |-> ev, gate |-> gate]

TitlesOf(watched) == [k \in 1..Len(watched) |-> watched[k].title]

\* the test that forgets the emotions and the year
PreferencesUnsetMut(prefs) == prefs.Genres = <<>>

\* not preferences['Genres'] and not preferences['Emotions'] and not preferences['Year']
PreferencesUnset(prefs) ==
    prefs.Genres = <<>> /\ prefs.Emotions = <<>> /\ prefs.Year = <<>>

\* recommend_movie: the caller of the engine, up to the first loop iteration
RecommendMovie ==
    /\ pc = "idle"
    /\ run < MaxRuns
    /\ run' = run + 1
    /\ LET prefs == read_preferences(prefsFile)
       IN  IF PreferencesUnset(prefs)
           THEN /\ notSet' = TRUE
                /\ log' = <<>>
                /\ UNCHANGED <<pc, i, preferences, recommended, watched_titles,
                               watch_later_titles, emotions, review_text, wlAtStart>>
           ELSE /\ notSet' = FALSE
                /\ preferences' = prefs
                /\ recommended' = <<>>
                /\ wlAtStart' = read_watch_later(watchLaterFile)
                /\ watch_later_titles' = LowerAll(read_watch_later(watchLaterFile))
                /\ watched_titles' = LowerAll(TitlesOf(read_watched(watchedFile)))
                /\ i' = 0
                /\ review_text' = NoReview
                /\ emotions' = <<>>
                /\ log' = <<>>
                /\ pc' = "loop"
    /\ UNCHANGED <<storeVars, tableVars, acceptedBefore, lastWritten, sessionVars>>

\* reject the candidate at a gate: continue
Continue(gate) ==
    /\ log' = Append(log, Event(i, "reject", gate))
    /\ pc' = "loop"

\* pass a gate: go on to the next one
Pass(gate) ==
    /\ log' = Append(log, Event(i, "pass", gate))
    /\ pc' = NextGate(gate)

\* "for movie in full_titles" and the limit of three
LoopHead ==
    /\ pc = "loop"
    /\ IF i = Len(catalog)
       THEN /\ pc' = "report"
            /\ UNCHANGED <<i, log>>
       ELSE /\ i' = i + 1
            /\ IF Len(recommended) >= MaxRecommended
               THEN /\ pc' = "report"
                    /\ UNCHANGED log
               ELSE /\ pc' = GateOrder[1]
                    /\ log' = Append(log, Event(i + 1, "eval", "-"))
    /\ UNCHANGED <<storeVars, tableVars, run, preferences, recommended, watched_titles,
                   watch_later_titles, emotions, review_text, wlAtStart, acceptedBefore, notSet,
                   lastWritten, sessionVars>>

GenreGate ==
    /\ pc = "genre"
    /\ IF GenreGatePasses(catalog[i], preferences) THEN Pass("genre") ELSE Continue("genre")
    /\ UNCHANGED <<storeVars, tableVars, run, i, preferences, recommended, watched_titles,
                   watch_later_titles, emotions, review_text, wlAtStart, acceptedBefore, notSet,
                   lastWritten, sessionVars>>

YearGate ==
    /\ pc = "year"
    /\ IF YearGatePasses(catalog[i], preferences) THEN Pass("year") ELSE Continue("year")
    /\ UNCHANGED <<storeVars, tableVars, run, i, preferences, recommended, watched_titles,
                   watch_later_titles, emotions, review_text, wlAtStart, acceptedBefore, notSet,
                   lastWritten, sessionVars>>

DedupGate ==
    /\ pc = "dedup"
    /\ IF DedupGatePasses(catalog[i], watched_titles, watch_later_titles)
       THEN Pass("dedup") ELSE Continue("dedup")
    /\ UNCHANGED <<storeVars, tableVars, run, i, preferences, recommended, watched_titles,
                   watch_later_titles, emotions, review_text, wlAtStart, acceptedBefore, notSet,
                   lastWritten, sessionVars>>

RatingGate ==
    /\ pc = "rating"
    /\ IF RatingGatePasses(catalog[i], ratings) THEN Pass("rating") ELSE Continue("rating")
    /\ UNCHANGED <<storeVars, tableVars, run, i, preferences, recommended, watched_titles,
                   watch_later_titles, emotions, review_text, wlAtStart, acceptedBefore, notSet,
                   lastWritten, sessionVars>>

\* the review fetch: whatever the external source answers
ReviewGate ==
    /\ pc = "review"
    /\ \E r \in FetchResults :
         /\ review_text' = r
         /\ IF ReviewAbsent(r)
            THEN /\ log' = log \o <<Event(i, "fetch", "review"), Event(i, "reject", "review")>>
                 /\ pc' = "loop"
            ELSE /\ log' = log \o <<Event(i, "fetch", "review"), Event(i, "pass", "review")>>
                 /\ pc' = NextGate("review")
    /\ UNCHANGED <<storeVars, tableVars, run, i, preferences, recommended, watched_titles,
                   watch_later_titles, emotions, wlAtStart, acceptedBefore, notSet, lastWritten, sessionVars>>

\* the emotion analysis of the fetched review: whatever the classifier ranks
EmotionGate ==
    /\ pc = "emotion"
    /\ \E ranking \in ClassifierRankings :
         /\ emotions' = analyze_emotions(review_text.text, ranking)
         /\ IF EmotionGatePasses(emotions', preferences)
            THEN /\ log' = log \o <<Event(i, "analyze", "emotion"), Event(i, "pass", "emotion")>>
                 /\ pc' = NextGate("emotion")
            ELSE /\ log' = log \o <<Event(i, "analyze", "emotion"), Event(i, "reject", "emotion")>>
                 /\ pc' = "loop"
    /\ UNCHANGED <<storeVars, tableVars, run, i, preferences, recommended, watched_titles,
                   watch_later_titles, review_text, wlAtStart, acceptedBefore, notSet,
                   lastWritten, sessionVars>>

\* all gates passed: the result list and the WatchLater file grow
Accept ==
    /\ pc = "accept"
    /\ recommended' = Append(recommended, catalog[i].originalTitle)
    /\ watchLaterFile' = append_watch_later(watchLaterFile, catalog[i].originalTitle)
    /\ log' = Append(log, Event(i, "accept", "-"))
    /\ pc' = "sleep"
    /\ UNCHANGED <<watchedFile, prefsFile, tableVars, run, i, preferences, watched_titles,
                   watch_later_titles, emotions, review_text, wlAtStart, acceptedBefore, notSet,
                   lastWritten, sessionVars>>

\* time.sleep(1) at the end of the loop body
Sleep ==
    /\ pc = "sleep"
    /\ log' = Append(log, Event(i, "sleep", "-"))
    /\ pc' = "loop"
    /\ UNCHANGED <<storeVars, tableVars, run, i, preferences, recommended, watched_titles,
                   watch_later_titles, emotions, review_text, wlAtStart, acceptedBefore, notSet,
                   lastWritten, sessionVars>>

\* the outcome message; the engine returns
Report ==
    /\ pc = "report"
    /\ acceptedBefore' = acceptedBefore \cup Range(recommended)
    /\ pc' = "idle"
    /\ UNCHANGED <<storeVars, tableVars, run, i, preferences, recommended, watched_titles,
                   watch_later_titles, emotions, review_text, log, wlAtStart, notSet, lastWritten, sessionVars>>

NextEngine ==
    \/ RecommendMovie
    \/ LoopHead
    \/ GenreGate
    \/ YearGate
    \/ DedupGate
    \/ RatingGate
    \/ ReviewGate
    \/ EmotionGate
    \/ Accept
    \/ Sleep
    \/ Report

(***************************************************************************)
(* A session over a catalog of several rows                                *)
(***************************************************************************)
Y(n) == Num(n)

\* the rows a session's catalog is drawn from, in file order
MasterCatalog ==
    << Movie("tt1", <<"X">>, Y(2015), <<"Drama", ",", "Comedy">>),
       Movie("tt2", <<"x">>, Y(2012), <<"Comedy", ",", "Drama">>),
       Movie("tt3", <<"Y", ",", " ", "Z">>, Y(2010), <<"Drama", ",", " ", "Comedy">>),
       Movie("tt4", <<"H">>, Y(2015), <<"Horror">>),
       Movie("tt5", <<"O">>, Y(1999), <<"Drama", ",", "Comedy">>),
       Movie("tt6", <<"L">>, Y(2015), <<"Drama", ",", "Comedy">>),
       Movie("tt7", <<"T">>, Y(2019), <<"drama", ",", "comedy">>) >>

MasterRatings ==
    << Rating("tt1", Num(800), Num(100000)),
       Rating("tt2", Num(651), Num(50001)),
       Rating("tt3", Num(800), Num(100000)),
       Rating("tt4", Num(800), Num(100000)),
       Rating("tt5", Num(800), Num(100000)),
       Rating("tt6", Num(650), Num(100000)),
       Rating("tt7", Num(900), Num(200000)) >>

\* the rows of master at the positions picked, in their order
RECURSIVE Pick(_, _, _)
Pick(master, picked, k) ==
    IF k > Len(master) THEN <<>>
    ELSE (IF k \in picked THEN <<master[k]>> ELSE <<>>) \o Pick(master, picked, k + 1)

Catalogs ==
    { Pick(MasterCatalog, picked, 1) :
        picked \in {S \in SUBSET (1..Len(MasterCatalog)) : Cardinality(S) <= MaxCatalog} }

SessionPreferences ==
    { [Genres |-> << <<"Drama">> >>, Emotions |-> << <<"joy">> >>, Year |-> BandNew],
      [Genres |-> << <<"Drama">>, <<"Comedy">> >>,
       Emotions |-> << <<"joy">>, <<"sadness">> >>, Year |-> <<>>] }

SessionWatchLater == { <<>>, <<"t">> }

Init ==
    /\ catalog \in Catalogs
    /\ ratings = MasterRatings
    /\ \E p \in SessionPreferences : prefsFile = write_preferences(p)
    /\ watchedFile = <<>>
    /\ watchLaterFile \in SessionWatchLater
    /\ pc = "idle"
    /\ run = 0
    /\ i = 0
    /\ preferences = EmptyPreferences
    /\ recommended = <<>>
    /\ watched_titles = <<>>
    /\ watch_later_titles = <<>>
    /\ review_text = NoReview
    /\ emotions = <<>>
    /\ log = <<>>
    /\ wlAtStart = <<>>
    /\ acceptedBefore = {}
    /\ notSet = FALSE
    /\ lastWritten = <<>>
    /\ lastRemove = <<>>
    /\ appended = <<>>
    /\ new_movies = <<>>
    /\ prefsBefore = <<>>
    /\ typed = Typed(UserTitles, UserReviews, Sentiments, UserLaterTitles)

Next == NextEngine

Spec == Init /\ [][Next]_vars

(***************************************************************************)
(* Properties of a run of the engine                                       *)
(***************************************************************************)
\* the positions of the log holding an event of kind ev
EventsAt(ev) == {k \in 1..Len(log) : log[k].ev = ev}

\* the candidate of log[k] passed gate g earlier in the run
PassedBefore(k, g) == \E j \in 1..(k - 1) : log[j] = Event(log[k].idx, "pass", g)

RejectedBefore(k) ==
    \E j \in 1..(k - 1) : log[j].idx = log[k].idx /\ log[j].ev = "reject"

\* the events the last step logged: a step logs at most two, and the log only
\* grows within a run, so every event of a run is among the newest in some state
Newest == {k \in 1..Len(log) : k >= Len(log) - 1}

EngineRunning == pc \notin {"idle"}

\* C1: within one run no title is accepted twice, compared case-insensitively
\* (a later candidate sees the titles accepted earlier in the run).
C1_NoTitleTwiceInRun ==
    \A j, k \in 1..Len(recommended) :
        j < k => Lower(recommended[j]) # Lower(recommended[k])

ClaimedGateOrder == <<"genre", "year", "dedup", "rating", "review", "emotion">>

ClaimedPlace(g) == CHOOSE n \in 1..6 : ClaimedGateOrder[n] = g

\* the genres of the movie matching the preferred genres, counted as the claim says
ClaimedGenreMatches(movie, prefs) ==
    LET gs == IF movie.genres = <<>> THEN <<>> ELSE Split(movie.genres, ",")
    IN  Cardinality({k \in 1..Len(gs) :
            \E j \in 1..Len(prefs.Genres) : Lower(Strip(gs[k])) = Lower(prefs.Genres[j])})

ClaimedRequired(list) == IF Len(list) >= 2 THEN 2 ELSE 1

\* C2: the gates are applied in the order genre, year, dedup, rating, review,
\* emotion and stop at the first failure: a review is fetched for a candidate
\* only after it passed the genre, year, dedup and rating gates (never for a
\* candidate failing the genre gate), and the emotion analysis is run only on a
\* review that the fetch returned.
C2_GateOrder ==
    /\ \A k \in Newest :
         /\ log[k].ev = "fetch" =>
              /\ \A g \in {"genre", "year", "dedup", "rating"} : PassedBefore(k, g)
              /\ ClaimedGenreMatches(catalog[log[k].idx], preferences)
                   >= ClaimedRequired(preferences.Genres)
         /\ log[k].ev = "analyze" =>
              /\ PassedBefore(k, "review")
              /\ \E j \in 1..(k - 1) : log[j] = Event(log[k].idx, "fetch", "review")
         /\ log[k].ev \in {"pass", "reject"} =>
              /\ ~RejectedBefore(k)
              /\ \A n \in 1..6 :
                   (n < ClaimedPlace(log[k].gate)) <=> PassedBefore(k, ClaimedGateOrder[n])
         /\ log[k].ev \in {"fetch", "analyze", "accept"} => ~RejectedBefore(k)
    /\ pc = "emotion" => ~ReviewAbsent(review_text)

C2_Witness ==
    /\ \E k \in 1..Len(log) : log[k] = Event(log[k].idx, "reject", "genre")
    /\ \E k \in 1..Len(log) : log[k] = Event(log[k].idx, "reject", "review")
    /\ \E k \in 1..Len(log) : log[k] = Event(log[k].idx, "reject", "rating")
    /\ EventsAt("analyze") # {}

\* C3: a title accepted by an earlier run is never accepted again by a later
\* run over the same catalog.
C3_NeverReaccepted ==
    EngineRunning => \A k \in 1..Len(recommended) : recommended[k] \notin acceptedBefore

\* C4: while a run goes on and when it has ended, loading WatchLater gives the
\* entries that were there when the run started followed by the accepted
\* titles, one entry per title, equal to it.
C4_AcceptedPersisted ==
    (run >= 1 /\ ~notSet) =>
        read_watch_later(watchLaterFile) = wlAtStart \o recommended

\* the candidates accepted in this run, in the order of acceptance
RECURSIVE AcceptedIdx(_)
AcceptedIdx(l) ==
    IF l = <<>> THEN <<>>
    ELSE (IF Head(l).ev = "accept" THEN <<Head(l).idx>> ELSE <<>>) \o AcceptedIdx(Tail(l))

\* nothing but the pause follows the third acceptance of a run
QuietAfterThird ==
    \A k \in EventsAt("accept") :
        Cardinality({j \in EventsAt("accept") : j <= k}) >= 3 =>
            \A j \in (k + 1)..Len(log) : log[j].ev = "sleep"

\* C9: a run accepts at most 3 titles and emits them in catalog order; after
\* the third acceptance no candidate is evaluated, no review is fetched and
\* nothing is appended to WatchLater.
C9_Inv ==
    /\ Len(recommended) <= 3
    /\ Len(AcceptedIdx(log)) = Len(recommended)
    /\ \A k \in 1..Len(recommended) :
         /\ recommended[k] = catalog[AcceptedIdx(log)[k]].originalTitle
         /\ k > 1 => AcceptedIdx(log)[k - 1] < AcceptedIdx(log)[k]
    /\ QuietAfterThird

C9_AtMostThree ==
    /\ []C9_Inv
    /\ [][(Len(recommended) >= 3 /\ run' = run) =>
            (watchLaterFile' = watchLaterFile /\ recommended' = recommended)]_vars

\* the run stopped at a candidate it did not evaluate, after three acceptances
C9_Witness ==
    /\ pc = "report"
    /\ Len(recommended) = 3
    /\ i <= Len(catalog)
    /\ \A k \in 1..Len(log) : log[k].idx # i

(***************************************************************************)
(* A session over a catalog of one row: the inputs of each gate varied     *)
(***************************************************************************)
GoodRatings == << Rating("tt1", Num(800), Num(100000)) >>

GenreFields ==
    { <<>>,
      <<"Drama">>,
      <<"drama">>,
      <<"Drama", ",", "Comedy">>,
      <<"Comedy", ",", " ", "Drama">>,
      <<"Horror">>,
      <<"Horror", ",", "Drama">>,
      <<"Comedy", ",", "Horror", ",", "Drama">> }

GenrePreferences ==
    { <<>>,
      << <<"Drama">> >>,
      << <<"comedy">> >>,
      << <<"Drama">>, <<"Comedy">> >>,
      << <<"Horror">>, <<"drama">> >>,
      << <<"Comedy">>, <<"Horror">>, <<"Drama">> >> }

YearFields ==
    { Num(1950), Num(1999), Num(2000), Num(2009), Num(2010), Num(2019), Num(2020),
      Num(2024), Num(2025), Num(2030), OtherText }

BandUnknown == <<"unknown">>

\* the spelling of the last band in the file format's description
BandVeryNewHyphen == <<"very", "-", "new">>

YearPreferences ==
    { <<>>, BandOld, BandMiddle, BandNew, BandVeryNew, BandUnknown, BandVeryNewHyphen }

AverageFields == { Num(640), Num(650), Num(651), Num(800), NaNText, OtherText }

VotesFields == { Num(49999), Num(50000), Num(50001), OtherText }

RatingTables ==
    { <<>>, << Rating("tt9", Num(800), Num(100000)) >>,
      << Rating("tt1", Num(800), Num(100000)), Rating("tt1", Num(600), Num(100000)) >> }
    \cup { << Rating("tt1", a, v) >> : a \in AverageFields, v \in VotesFields }

EmotionPreferences ==
    { <<>>,
      << <<"joy">> >>,
      << <<"Love">> >>,
      << <<"joy">>, <<"sadness">> >>,
      << <<"joy">>, <<"surprise">> >>,
      << <<"love">>, <<"fear">>, <<"Joy">> >> }

\* nothing set, and one field set alone
SparsePreferences ==
    { EmptyPreferences,
      [EmptyPreferences EXCEPT !.Genres = << <<"Drama">> >>],
      [EmptyPreferences EXCEPT !.Emotions = << <<"joy">> >>],
      [EmptyPreferences EXCEPT !.Year = BandNew] }

GateCase(genres, year, table, prefs) ==
    [movie |-> Movie("tt1", <<"X">>, year, genres), ratings |-> table, prefs |-> prefs]

Prefs(gs, es, band) == [Genres |-> gs, Emotions |-> es, Year |-> band]

GateCases ==
    { GateCase(g, Num(2015), GoodRatings, Prefs(p, << <<"joy">> >>, <<>>)) :
        g \in GenreFields, p \in GenrePreferences }
    \cup
    { GateCase(<<"Drama">>, y, GoodRatings, Prefs(<< <<"Drama">> >>, << <<"joy">> >>, b)) :
        y \in YearFields, b \in YearPreferences }
    \cup
    { GateCase(<<"Drama">>, Num(2015), t, Prefs(<< <<"Drama">> >>, << <<"joy">> >>, BandNew)) :
        t \in RatingTables }
    \cup
    { GateCase(<<"Drama">>, Num(2015), GoodRatings, Prefs(<< <<"Drama">> >>, e, BandNew)) :
        e \in EmotionPreferences }
    \cup
    { GateCase(<<"Drama">>, Num(2015), GoodRatings, p) : p \in SparsePreferences }

\* the file write_preferences left, or no file at all when nothing is set
PreferenceFiles(prefs) ==
    { write_preferences(prefs) } \cup (IF prefs = EmptyPreferences THEN { <<>> } ELSE {})

InitGates ==
    /\ \E c \in GateCases :
         /\ catalog = <<c.movie>>
         /\ ratings = c.ratings
         /\ prefsFile \in PreferenceFiles(c.prefs)
    /\ watchedFile = <<>>
    /\ watchLaterFile = <<>>
    /\ pc = "idle"
    /\ run = 0
    /\ i = 0
    /\ preferences = EmptyPreferences
    /\ recommended = <<>>
    /\ watched_titles = <<>>
    /\ watch_later_titles = <<>>
    /\ review_text = NoReview
    /\ emotions = <<>>
    /\ log = <<>>
    /\ wlAtStart = <<>>
    /\ acceptedBefore = {}
    /\ notSet = FALSE
    /\ lastWritten = <<>>
    /\ lastRemove = <<>>
    /\ appended = <<>>
    /\ new_movies = <<>>
    /\ prefsBefore = <<>>
    /\ typed = Typed(UserTitles, UserReviews, Sentiments, UserLaterTitles)

SpecGates == InitGates /\ [][Next]_vars

(***************************************************************************)
(* Properties of the gates                                                 *)
(***************************************************************************)
\* the step just taken decided gate g for the current candidate
JustDecided(g) ==
    /\ log # <<>>
    /\ log[Len(log)].gate = g
    /\ log[Len(log)].ev \in {"pass", "reject"}

JustPassed(g) == log[Len(log)].ev = "pass"

ClaimedEmotionMatches(ems, prefs) ==
    Cardinality({k \in 1..Len(ems) :
        \E j \in 1..Len(prefs.Emotions) : Lower(Strip(ems[k])) = Lower(prefs.Emotions[j])})

\* C6: the genre gate (the emotion gate) passes exactly when the number of the
\* candidate's genres (of the review's dominant emotions) found
\* case-insensitively in the preference list is at least 2 for a list of two
\* or more entries and at least 1 otherwise; with an empty list of preferred
\* genres or emotions nothing is accepted.
C6_RequiredMatches ==
    /\ JustDecided("genre") =>
         (JustPassed("genre") <=>
            ClaimedGenreMatches(catalog[i], preferences) >= ClaimedRequired(preferences.Genres))
    /\ JustDecided("emotion") =>
         /\ Len(emotions) <= 3
         /\ JustPassed("emotion") <=>
              ClaimedEmotionMatches(emotions, preferences)
                >= ClaimedRequired(preferences.Emotions)
    /\ (preferences.Genres = <<>> \/ preferences.Emotions = <<>>) => recommended = <<>>

\* a candidate with one of two preferred genres, rejected at the genre gate
C6_Witness ==
    /\ JustDecided("genre")
    /\ ~JustPassed("genre")
    /\ Len(preferences.Genres) = 2
    /\ ClaimedGenreMatches(catalog[i], preferences) = 1

\* the band of a year with the claim's limits; last is the name of the last band
ClaimedBand(year, last) ==
    IF year.kind # "num" THEN NoBand
    ELSE IF year.val <= 1999 THEN <<"old">>
    ELSE IF year.val \in 2000..2009 THEN <<"middle">>
    ELSE IF year.val \in 2010..2019 THEN <<"new">>
    ELSE IF year.val \in 2020..2024 THEN last
    ELSE NoBand

YearGateAsClaimed(last) ==
    JustDecided("year") =>
        (JustPassed("year") <=>
            /\ ClaimedBand(catalog[i].startYear, last) # NoBand
            /\ \/ preferences.Year = <<>>
               \/ preferences.Year = ClaimedBand(catalog[i].startYear, last))

\* C7 as stated: the year gate passes exactly when the release year classifies
\* into a band (<= 1999 old, 2000..2009 middle, 2010..2019 new, 2020..2024
\* very-new; 2025 or later and non-integer years do not classify) and the
\* preferred band is empty or equal to that band.
C7_YearGateAsStated == YearGateAsClaimed(<<"very", "-", "new">>)

\* C7 as amended: the same, the band of 2020..2024 being the string "very new".
C7_YearGate == YearGateAsClaimed(<<"very", " ", "new">>)

\* a 2024 candidate passed under the preferred band "very new"
C7_Witness ==
    /\ JustDecided("year")
    /\ JustPassed("year")
    /\ catalog[i].startYear = Num(2024)
    /\ preferences.Year = <<"very", " ", "new">>

\* the rating row the claim speaks of: one with the candidate's id
ClaimedRatingRows(movie) == {k \in 1..Len(ratings) : ratings[k].tconst = movie.tconst}

\* C8: the rating gate passes exactly when a rating record with the
\* candidate's id exists, both fields are numeric, averageRating > 6.5 and
\* voteCount > 50000.
C8_RatingGate ==
    JustDecided("rating") =>
        (JustPassed("rating") <=>
            \E k \in ClaimedRatingRows(catalog[i]) :
                /\ k = Len(ratings) \/ \A j \in (k + 1)..Len(ratings) : j \notin ClaimedRatingRows(catalog[i])
                /\ ratings[k].averageRating.kind = "num"
                /\ ratings[k].numVotes.kind = "num"
                /\ ratings[k].averageRating.val > 650
                /\ ratings[k].numVotes.val > 50000)

(***************************************************************************)
(* The list menus: the user's own additions and removals                   *)
(***************************************************************************)
idleVars == <<tableVars, engineVars, lastWritten>>

\* what one append_watched call was given, with the number it wrote
Appended(file, title, review, status) ==
    [number |-> NumStr(Len(read_watched(file)) + 1), title |-> title,
     review |-> review, status |-> status]

\* one remove_watch_later call: its argument, the list it found, its result
Removal(content, index) ==
    [index |-> index, before |-> read_watch_later(content),
     result |-> remove_watch_later(content, index)]

\* view_watched_list: a title and a review typed in, the sentiment from TextBlob
AddWatched ==
    /\ pc = "idle"
    /\ Len(watchedFile) < MaxWatchedLines
    /\ \E title \in typed.titles, review \in typed.reviews, sentiment \in typed.sentiments :
         /\ watchedFile' = append_watched(watchedFile, title, review, sentiment)
         /\ appended' = Append(appended, Appended(watchedFile, title, review, sentiment))
    /\ UNCHANGED <<watchLaterFile, prefsFile, idleVars, lastRemove, new_movies, prefsBefore>>

\* view_watch_later_list, option 1
AddWatchLater ==
    /\ pc = "idle"
    /\ Len(read_watch_later(watchLaterFile)) < MaxWatchLater
    /\ \E title \in typed.later :
         watchLaterFile' = append_watch_later(watchLaterFile, title)
    /\ UNCHANGED <<watchedFile, prefsFile, idleVars, sessionVars>>

\* view_watch_later_list, option 2: remove, then delete or move to Watched
RemoveWatchLater ==
    /\ pc = "idle"
    /\ read_watch_later(watchLaterFile) # <<>>
    /\ \E index \in 0..(Len(read_watch_later(watchLaterFile)) - 1) :
         LET r == remove_watch_later(watchLaterFile, index)
         IN  /\ watchLaterFile' = r.content
             /\ \/ UNCHANGED <<watchedFile, appended>>
                \/ /\ Len(watchedFile) < MaxWatchedLines
                   /\ \E review \in typed.reviews, sentiment \in typed.sentiments :
                        /\ watchedFile' =
                             append_watched(watchedFile, r.removed[1], review, sentiment)
                        /\ appended' =
                             Append(appended,
                                    Appended(watchedFile, r.removed[1], review, sentiment))
    /\ UNCHANGED <<prefsFile, idleVars, lastRemove, new_movies, prefsBefore>>

NextStore ==
    \/ AddWatched
    \/ AddWatchLater
    \/ RemoveWatchLater

InitStore ==
    /\ catalog = <<>>
    /\ ratings = <<>>
    /\ prefsFile = <<>>
    /\ watchedFile = <<>>
    /\ watchLaterFile = <<>>
    /\ pc = "idle"
    /\ run = 0
    /\ i = 0
    /\ preferences = EmptyPreferences
    /\ recommended = <<>>
    /\ watched_titles = <<>>
    /\ watch_later_titles = <<>>
    /\ review_text = NoReview
    /\ emotions = <<>>
    /\ log = <<>>
    /\ wlAtStart = <<>>
    /\ acceptedBefore = {}
    /\ notSet = FALSE
    /\ lastWritten = <<>>
    /\ lastRemove = <<>>
    /\ appended = <<>>
    /\ new_movies = <<>>
    /\ prefsBefore = <<>>
    /\ typed = Typed(UserTitles, UserReviews, Sentiments, UserLaterTitles)

SpecStore == InitStore /\ [][NextStore]_vars

DigitValue(d) == (CHOOSE k \in 1..10 : Digits[k] = d) - 1

RECURSIVE ParseNat(_)
ParseNat(ds) ==
    IF Len(ds) = 1 THEN DigitValue(ds[1])
    ELSE 10 * ParseNat(SubSeq(ds, 1, Len(ds) - 1)) + DigitValue(ds[Len(ds)])

\* the sequence number a line of the Watched file carries: the text before its first "."
WrittenNumber(line) == ParseNat(SubSeq(line, 1, FirstAt(line, ".", 1) - 1))

\* C5: the sequence numbers of the Watched file start at 1, are strictly
\* increasing and are never reused.
C5_SequenceNumbers ==
    /\ watchedFile # <<>> => WrittenNumber(watchedFile[1]) = 1
    /\ \A j, k \in 1..Len(watchedFile) :
         j < k => WrittenNumber(watchedFile[j]) < WrittenNumber(watchedFile[k])

(***************************************************************************)
(* Saving and loading the preferences                                      *)
(***************************************************************************)
GenreTokens == { <<"Drama">>, <<"comedy">>, <<"Film", " ", "Noir">> }
EmotionTokens == { <<"joy">>, <<"sadness">> }

ListsOver(tokens) ==
    UNION { [1..n -> tokens] : n \in 0..MaxPrefLen }

PreferenceValues ==
    { Prefs(g, e, b) : g \in ListsOver(GenreTokens), e \in ListsOver(EmotionTokens),
                       b \in YearPreferences }

\* write_preferences(preferences)
SavePreferences ==
    /\ pc = "idle"
    /\ prefsFile' = write_preferences(preferences)
    /\ lastWritten' = <<preferences>>
    /\ UNCHANGED <<watchedFile, watchLaterFile, tableVars, engineVars, sessionVars>>

\* preferences = read_preferences()
LoadPreferences ==
    /\ pc = "idle"
    /\ preferences' = read_preferences(prefsFile)
    /\ UNCHANGED <<storeVars, tableVars, pc, run, i, recommended, watched_titles,
                   watch_later_titles, review_text, emotions, log, wlAtStart,
                   acceptedBefore, notSet, lastWritten, sessionVars>>

NextPrefs ==
    \/ SavePreferences
    \/ LoadPreferences

\* any preferences value in hand, no file yet
InitPrefs ==
    /\ catalog = <<>>
    /\ ratings = <<>>
    /\ prefsFile = <<>>
    /\ watchedFile = <<>>
    /\ watchLaterFile = <<>>
    /\ pc = "idle"
    /\ run = 0
    /\ i = 0
    /\ preferences \in PreferenceValues
    /\ recommended = <<>>
    /\ watched_titles = <<>>
    /\ watch_later_titles = <<>>
    /\ review_text = NoReview
    /\ emotions = <<>>
    /\ log = <<>>
    /\ wlAtStart = <<>>
    /\ acceptedBefore = {}
    /\ notSet = FALSE
    /\ lastWritten = <<>>
    /\ lastRemove = <<>>
    /\ appended = <<>>
    /\ new_movies = <<>>
    /\ prefsBefore = <<>>
    /\ typed = Typed(UserTitles, UserReviews, Sentiments, UserLaterTitles)

SpecPrefs == InitPrefs /\ [][NextPrefs]_vars

\* C10: loading the preferences after saving p gives p, the lists in their order.
C10_RoundTrip ==
    lastWritten # <<>> => read_preferences(prefsFile) = lastWritten[1]

\* three genres, one with a space inside, two emotions and the band "very new"
C10_Witness ==
    /\ lastWritten # <<>>
    /\ Len(lastWritten[1].Genres) = 3
    /\ <<"Film", " ", "Noir">> \in Range(lastWritten[1].Genres)
    /\ Len(lastWritten[1].Emotions) = 2
    /\ lastWritten[1].Year = BandVeryNew
    /\ read_preferences(prefsFile) = lastWritten[1]

(***************************************************************************)
(* remove_watch_later called with any index                                *)
(***************************************************************************)
RemoveIndexes == (0 - 1)..(MaxWatchLater + 1)

\* removed = remove_watch_later(index), for an index inside or outside the list
RemoveAt ==
    /\ pc = "idle"
    /\ \E index \in RemoveIndexes :
         /\ watchLaterFile' = remove_watch_later(watchLaterFile, index).content
         /\ lastRemove' = <<Removal(watchLaterFile, index)>>
    /\ UNCHANGED <<watchedFile, prefsFile, idleVars, appended, new_movies, prefsBefore>>

NextRemove ==
    \/ AddWatchLater
    \/ RemoveAt

SpecRemove == InitStore /\ [][NextRemove]_vars

InRange(c) == 0 <= c.index /\ c.index < Len(c.before)

\* the list without its entry at the 0-based index
WithoutEntry(list, index) ==
    [k \in 1..(Len(list) - 1) |-> IF k <= index THEN list[k] ELSE list[k + 1]]

RemovedInRange(c) ==
    /\ read_watch_later(c.result.content) = WithoutEntry(c.before, c.index)
    /\ c.result.removed = <<c.before[c.index + 1]>>
    /\ c.result.raised = <<>>

\* C11 as stated: an index inside the list removes that entry, keeps the others
\* in order and returns the removed title; an index outside it fails with an
\* IndexError.
C11_AsStated ==
    lastRemove # <<>> =>
        IF InRange(lastRemove[1]) THEN RemovedInRange(lastRemove[1])
        ELSE lastRemove[1].result.raised = <<"IndexError">>

\* C11: an index inside the list removes that entry, keeps the others in order
\* and returns the removed title; an index outside it raises nothing: "Invalid
\* index." is printed, None is returned and the Watch Later file is untouched.
C11_RemoveWatchLater ==
    lastRemove # <<>> =>
        IF InRange(lastRemove[1]) THEN RemovedInRange(lastRemove[1])
        ELSE /\ lastRemove[1].result.raised = <<>>
             /\ lastRemove[1].result.removed = <<>>
             /\ lastRemove[1].result.printed = <<"Invalid index.">>
             /\ read_watch_later(lastRemove[1].result.content) = lastRemove[1].before

\* an index one past the end of a list that has entries: refused, nothing removed
C11_Witness ==
    /\ lastRemove # <<>>
    /\ lastRemove[1].before # <<>>
    /\ lastRemove[1].index = Len(lastRemove[1].before)
    /\ lastRemove[1].result.removed = <<>>
    /\ read_watch_later(watchLaterFile) = lastRemove[1].before

(***************************************************************************)
(* recommend_movie with and without preferences                            *)
(***************************************************************************)
NothingStored(file) ==
    LET p == read_preferences(file)
    IN  Len(p.Genres) = 0 /\ Len(p.Emotions) = 0 /\ Len(p.Year) = 0

\* C12: with Genres, Emotions and Year all empty recommend_movie reports that
\* the preferences are not set and the engine is not invoked: no candidate is
\* evaluated, no review fetched, the Watch Later file unchanged; with at least
\* one of them non-empty the engine is invoked.
C12_ShortCircuit ==
    /\ [](notSet => pc = "idle" /\ log = <<>>)
    /\ [][run' # run =>
            IF NothingStored(prefsFile)
            THEN /\ notSet'
                 /\ pc' = "idle" /\ log' = <<>>
                 /\ i' = i /\ recommended' = recommended
                 /\ storeVars' = storeVars
            ELSE /\ ~notSet'
                 /\ pc' = "loop" /\ log' = <<>>
                 /\ preferences' = read_preferences(prefsFile)]_vars

\* recommend_movie has returned on preferences that are not set, with a catalog
\* row that would pass every gate
C12_Witness ==
    /\ run >= 1
    /\ notSet
    /\ NothingStored(prefsFile)
    /\ pc = "idle"
    /\ log = <<>>
    /\ watchLaterFile = <<>>
    /\ Len(catalog) = 1

(***************************************************************************)
(* Watched entries made by the user, then runs of the engine               *)
(***************************************************************************)
\* two rows that pass every gate, their titles equal up to case
InitWatchedRun ==
    /\ catalog = Pick(MasterCatalog, {1, 2}, 1)
    /\ ratings = MasterRatings
    /\ \E p \in SessionPreferences : prefsFile = write_preferences(p)
    /\ watchedFile = <<>>
    /\ watchLaterFile = <<>>
    /\ pc = "idle"
    /\ run = 0
    /\ i = 0
    /\ preferences = EmptyPreferences
    /\ recommended = <<>>
    /\ watched_titles = <<>>
    /\ watch_later_titles = <<>>
    /\ review_text = NoReview
    /\ emotions = <<>>
    /\ log = <<>>
    /\ wlAtStart = <<>>
    /\ acceptedBefore = {}
    /\ notSet = FALSE
    /\ lastWritten = <<>>
    /\ lastRemove = <<>>
    /\ appended = <<>>
    /\ new_movies = <<>>
    /\ prefsBefore = <<>>
    /\ typed = Typed(UserTitles, UserReviews, Sentiments, UserLaterTitles)

NextWatchedRun ==
    \/ AddWatched
    \/ NextEngine

SpecWatchedRun == InitWatchedRun /\ [][NextWatchedRun]_vars

\* C13: after any append_watched calls, a run of the engine accepts no title
\* that was appended to Watched, compared without regard to case, whatever
\* the title and the review text were.
C13_WatchedNeverAccepted ==
    pc # "idle" =>
        \A k \in 1..Len(recommended), a \in 1..Len(appended) :
            Lower(recommended[k]) # Lower(appended[a].title)

(***************************************************************************)
(* Preference Deriver: renew_preferences                                   *)
(***************************************************************************)
MaxSession == 3

\* genres_count[key] = genres_count.get(key, 0) + 1, the keys in the order of
\* their first insertion
Bump(counts, key) ==
    IF \E k \in 1..Len(counts) : counts[k].key = key
    THEN [k \in 1..Len(counts) |->
            IF counts[k].key = key
            THEN [key |-> key, count |-> counts[k].count + 1]
            ELSE counts[k]]
    ELSE Append(counts, [key |-> key, count |-> 1])

RECURSIVE CountAll(_, _)
CountAll(counts, keys) ==
    IF keys = <<>> THEN counts
    ELSE CountAll(Bump(counts, Head(keys)), Tail(keys))

\* the sort that puts an item in front of the items of equal count
InsertByCountMut(sorted, item) ==
    LET n == Cardinality({k \in 1..Len(sorted) : sorted[k].count > item.count})
    IN  SubSeq(sorted, 1, n) \o <<item>> \o SubSeq(sorted, n + 1, Len(sorted))

\* sorted(items, key=count, reverse=True) is stable: an item goes behind the
\* items of greater or equal count that came before it
InsertByCount(sorted, item) ==
    LET n == Cardinality({k \in 1..Len(sorted) : sorted[k].count >= item.count})
    IN  SubSeq(sorted, 1, n) \o <<item>> \o SubSeq(sorted, n + 1, Len(sorted))

RECURSIVE SortedByCount(_)
SortedByCount(items) ==
    IF items = <<>> THEN <<>>
    ELSE InsertByCount(SortedByCount(SubSeq(items, 1, Len(items) - 1)), items[Len(items)])

\* [key for key, count in sorted_items[:3]]
TopThree(counts) ==
    LET sorted == SortedByCount(counts)
    IN  [k \in 1..(IF Len(sorted) < 3 THEN Len(sorted) ELSE 3) |-> sorted[k].key]

\* the stripped non-empty genre tokens of the session's movies, in order
RECURSIVE SessionGenres(_)
SessionGenres(movies) ==
    IF movies = <<>> THEN <<>>
    ELSE (IF Head(movies).genres # <<>>
          THEN StripNonEmpty(Split(Head(movies).genres, ","))
          ELSE <<>>) \o SessionGenres(Tail(movies))

top_genres(movies) == TopThree(CountAll(<<>>, SessionGenres(movies)))

\* new_years: the start years int() accepts
RECURSIVE NewYears(_)
NewYears(movies) ==
    IF movies = <<>> THEN <<>>
    ELSE (IF IntFails(Head(movies).startYear) THEN <<>> ELSE <<Head(movies).startYear.val>>)
         \o NewYears(Tail(movies))

RECURSIVE Sum(_)
Sum(numbers) == IF numbers = <<>> THEN 0 ELSE Head(numbers) + Sum(Tail(numbers))

\* the band of average_year = sum(new_years) / len(new_years); the average
\* a compared with a limit c as sum against c * len
year_category(new_years) ==
    LET total == Sum(new_years)
        n == Len(new_years)
    IN  IF n = 0 THEN BandNew
        ELSE IF total <= 1999 * n THEN BandOld
        ELSE IF 2000 * n <= total /\ total <= 2009 * n THEN BandMiddle
        ELSE IF 2010 * n <= total /\ total <= 2019 * n THEN BandNew
        ELSE IF 2020 * n <= total /\ total <= 2024 * n THEN BandVeryNew
        ELSE BandUnknown

\* the emotions of the session's reviews, rankings[k] the classifier's answer
\* for the review of movie k
RECURSIVE SessionEmotions(_, _)
SessionEmotions(movies, rankings) ==
    IF movies = <<>> THEN <<>>
    ELSE LowerAll(analyze_emotions(Head(movies).review, Head(rankings)))
         \o SessionEmotions(Tail(movies), Tail(rankings))

top_emotions(movies, rankings) == TopThree(CountAll(<<>>, SessionEmotions(movies, rankings)))

\* the catalog rows whose title is the typed one, case ignored
matching_movies(full_titles, title_input) ==
    SelectSeq(full_titles, LAMBDA movie : Lower(movie.originalTitle) = Lower(title_input))

NewMovie(movie, review) ==
    [originalTitle |-> movie.originalTitle, startYear |-> movie.startYear,
     genres |-> movie.genres, review |-> review]

\* renew_preferences up to its input loop: the preferences file is reset
RenewStart ==
    /\ pc = "idle"
    /\ prefsBefore' = <<read_preferences(prefsFile)>>
    /\ prefsFile' = write_preferences(EmptyPreferences)
    /\ lastWritten' = <<EmptyPreferences>>
    /\ new_movies' = <<>>
    /\ pc' = "renew"
    /\ UNCHANGED <<watchedFile, watchLaterFile, tableVars, run, i, preferences, recommended,
                   watched_titles, watch_later_titles, review_text, emotions, log,
                   wlAtStart, acceptedBefore, notSet, lastRemove, appended>>

\* one pass of the input loop that enters a movie: a title of the catalog
\* typed in any case, a choice among the matches, a review, its sentiment
RenewEnter ==
    /\ pc = "renew"
    /\ Len(new_movies) < MaxSession
    /\ Len(watchedFile) < MaxWatchedLines
    /\ \E title_input \in {Lower(catalog[k].originalTitle) : k \in 1..Len(catalog)} :
         LET matches == matching_movies(catalog, title_input)
         IN  \E selection \in 1..Len(matches), review \in typed.reviews,
                sentiment \in typed.sentiments :
               LET selected_movie == matches[selection]
               IN  /\ watchedFile' = append_watched(watchedFile,
                                        selected_movie.originalTitle, review, sentiment)
                   /\ appended' = Append(appended,
                                        Appended(watchedFile, selected_movie.originalTitle,
                                                 review, sentiment))
                   /\ new_movies' = Append(new_movies, NewMovie(selected_movie, review))
    /\ UNCHANGED <<watchLaterFile, prefsFile, tableVars, engineVars, lastWritten,
                   lastRemove, prefsBefore>>

\* 'stop': nothing entered, or the three preferences derived and written
RenewStop ==
    /\ pc = "renew"
    /\ pc' = "idle"
    /\ IF new_movies = <<>>
       THEN UNCHANGED <<prefsFile, lastWritten>>
       ELSE \E rankings \in [1..Len(new_movies) -> ClassifierRankings] :
              LET derived == [Genres |-> top_genres(new_movies),
                              Emotions |-> top_emotions(new_movies, rankings),
                              Year |-> year_category(NewYears(new_movies))]
              IN  /\ prefsFile' = write_preferences(derived)
                  /\ lastWritten' = <<derived>>
    /\ UNCHANGED <<watchedFile, watchLaterFile, tableVars, run, i, preferences, recommended,
                   watched_titles, watch_later_titles, review_text, emotions, log,
                   wlAtStart, acceptedBefore, notSet, sessionVars>>

NextRenew ==
    \/ RenewStart
    \/ RenewEnter
    \/ RenewStop

\* the rows a renewal session picks its movies from
RenewCatalog ==
    << Movie("tt1", <<"A">>, Y(1999), <<"Drama", ",", "Comedy">>),
       Movie("tt2", <<"B">>, Y(2000), <<"Comedy", ",", ",", " ", "Horror">>),
       Movie("tt3", <<"a">>, Y(2024), <<>>),
       Movie("tt4", <<"C">>, OtherText,
             <<"Thriller", ",", "Drama", ",", "Comedy", ",", "Horror">>) >>

InitRenew ==
    /\ catalog = RenewCatalog
    /\ ratings = <<>>
    /\ prefsFile \in { <<>> } \cup { write_preferences(p) : p \in SessionPreferences }
    /\ watchedFile = <<>>
    /\ watchLaterFile = <<>>
    /\ pc = "idle"
    /\ run = 0
    /\ i = 0
    /\ preferences = EmptyPreferences
    /\ recommended = <<>>
    /\ watched_titles = <<>>
    /\ watch_later_titles = <<>>
    /\ review_text = NoReview
    /\ emotions = <<>>
    /\ log = <<>>
    /\ wlAtStart = <<>>
    /\ acceptedBefore = {}
    /\ notSet = FALSE
    /\ lastWritten = <<>>
    /\ lastRemove = <<>>
    /\ appended = <<>>
    /\ new_movies = <<>>
    /\ prefsBefore = <<>>
    /\ typed = Typed({}, { <<"good">> }, { <<"like">> }, {})

SpecRenew == InitRenew /\ [][NextRenew]_vars

(***************************************************************************)
(* A whole session: the three menus over one catalog row                   *)
(***************************************************************************)
InitSession ==
    /\ catalog = Pick(MasterCatalog, {1}, 1)
    /\ ratings = MasterRatings
    /\ prefsFile = write_preferences(Prefs(<< <<"Drama">> >>, << <<"joy">> >>, BandNew))
    /\ watchedFile = <<>>
    /\ watchLaterFile = <<>>
    /\ pc = "idle"
    /\ run = 0
    /\ i = 0
    /\ preferences = EmptyPreferences
    /\ recommended = <<>>
    /\ watched_titles = <<>>
    /\ watch_later_titles = <<>>
    /\ review_text = NoReview
    /\ emotions = <<>>
    /\ log = <<>>
    /\ wlAtStart = <<>>
    /\ acceptedBefore = {}
    /\ notSet = FALSE
    /\ lastWritten = <<>>
    /\ lastRemove = <<>>
    /\ appended = <<>>
    /\ new_movies = <<>>
    /\ prefsBefore = <<>>
    /\ typed = Typed({ <<"X">> }, { <<"good">> }, { <<"like">> }, { <<"X">> })

NextSession ==
    \/ NextEngine
    \/ NextStore
    \/ NextRenew

SpecSession == InitSession /\ [][NextSession]_vars

\* a step of recommend_movie or of the engine it calls
EngineStep == run' # run \/ pc \notin {"idle", "renew"}

\* C14: over the user's additions to Watched, the runs of the engine, the
\* renewals and the additions, removals and promotions of Watch Later, the
\* lines of the Watched file are never deleted or changed, each append_watched
\* adds exactly one line at the end and nothing else writes the file, and a
\* run of the engine leaves the Watched file and the Preferences file as they were.
C14_WatchedAppendOnly ==
    [][/\ Len(watchedFile') >= Len(watchedFile)
       /\ SubSeq(watchedFile', 1, Len(watchedFile)) = watchedFile
       /\ Len(watchedFile') =
            Len(watchedFile) + (IF appended' # appended THEN 1 ELSE 0)
       /\ appended' # appended =>
            /\ Len(appended') = Len(appended) + 1
            /\ SubSeq(appended', 1, Len(appended)) = appended
       /\ EngineStep => watchedFile' = watchedFile /\ prefsFile' = prefsFile]_vars

\* three lines in Watched, one of them entered in a renewal, after a run of
\* the engine whose accepted title has left Watch Later again
C14_Witness ==
    /\ Len(watchedFile) = 3
    /\ Len(appended) = 3
    /\ new_movies # <<>>
    /\ run >= 1
    /\ acceptedBefore # {}
    /\ read_watch_later(watchLaterFile) = <<>>
    /\ pc = "idle"

(***************************************************************************)
(* Properties of a renewal                                                 *)
(***************************************************************************)
\* renew_preferences has returned
RenewalOver == pc = "idle" /\ prefsBefore # <<>>

\* C15: a renewal in which no movie is entered leaves the stored preferences
\* as they were: read_preferences gives afterwards what it gave before.
C15_EmptyRenewalKeepsPreferences ==
    RenewalOver /\ new_movies = <<>> => read_preferences(prefsFile) = prefsBefore[1]

\* the last band in either spelling
ClassifiedBands == {BandOld, BandMiddle, BandNew, BandVeryNew, BandVeryNewHyphen}

\* C16: after a renewal in which movies were entered and every valid integer
\* year is at most 2024, the year band written is old, middle, new or very
\* new, never unknown; with no valid year it is new.
C16_YearBandKnown ==
    (RenewalOver /\ new_movies # <<>>
        /\ \A k \in 1..Len(NewYears(new_movies)) : NewYears(new_movies)[k] <= 2024)
    => /\ read_preferences(prefsFile).Year \in ClassifiedBands
       /\ NewYears(new_movies) = <<>> => read_preferences(prefsFile).Year = BandNew

\* the number of times genre g occurs among the tokens, and its first place
Occurrences(tokens, g) == Cardinality({k \in 1..Len(tokens) : tokens[k] = g})

FirstSeen(tokens, g) == CHOOSE k \in 1..Len(tokens) :
                            tokens[k] = g /\ \A j \in 1..(k - 1) : tokens[j] # g

\* g ranks ahead of h: more occurrences, or as many and seen first
Ahead(tokens, g, h) ==
    \/ Occurrences(tokens, g) > Occurrences(tokens, h)
    \/ /\ Occurrences(tokens, g) = Occurrences(tokens, h)
       /\ FirstSeen(tokens, g) < FirstSeen(tokens, h)

\* C17: the genres a renewal writes are the up-to-three genre strings of the
\* session's movies with the highest occurrence counts, in descending order of
\* count, ties in first-seen order, whatever preferences were stored before.
C17_TopGenres ==
    (RenewalOver /\ new_movies # <<>>) =>
        LET tokens == SessionGenres(new_movies)
            written == lastWritten[1].Genres
            distinct == Range(tokens)
        IN  /\ read_preferences(prefsFile).Genres = written
            /\ Len(written) = (IF Cardinality(distinct) < 3 THEN Cardinality(distinct) ELSE 3)
            /\ \A k \in 1..Len(written) : written[k] \in distinct
            /\ \A j, k \in 1..Len(written) : j < k => Ahead(tokens, written[j], written[k])
            /\ \A k \in 1..Len(written) :
                 \A h \in distinct \ Range(written) : Ahead(tokens, written[k], h)

\* four genres seen once and two of them seen again: the two lead in first-seen
\* order, the third is the first of the rest, and Drama, stored before, is cut
C17_Witness ==
    /\ RenewalOver
    /\ Len(new_movies) = 2
    /\ prefsBefore[1].Genres = << <<"Drama">> >>
    /\ lastWritten[1].Genres = << <<"Comedy">>, <<"Horror">>, <<"Thriller">> >>
    /\ read_preferences(prefsFile).Genres = lastWritten[1].Genres

(***************************************************************************)
(* Failed fetches and the pause                                            *)
(***************************************************************************)
\* C18: a review fetch that fails (an exception, a status other than 200, no
\* review found: the fetch returns None) skips only that candidate: nothing
\* is appended for it, the run goes on to the next candidate, and candidates
\* after it can still be accepted.
C18_FailedFetchSkips ==
    [][(pc = "review" /\ pc' # "review" /\ review_text' = NoReview) =>
          /\ pc' = "loop"
          /\ i' = i
          /\ recommended' = recommended
          /\ watchLaterFile' = watchLaterFile
          /\ log'[Len(log')] = Event(i, "reject", "review")]_vars

\* a candidate skipped at the review fetch and a later candidate of the same
\* run accepted on a review that was fetched
C18_Witness ==
    /\ review_text.some
    /\ \E a, b \in 1..Len(log) :
         /\ a < b
         /\ log[a] = Event(log[a].idx, "reject", "review")
         /\ log[b].ev = "accept"
         /\ log[a].idx < log[b].idx
         /\ catalog[log[b].idx].originalTitle \in Range(recommended)
         /\ catalog[log[a].idx].originalTitle \notin Range(recommended)

(***************************************************************************)
(* Reading a Watched file that holds lines of any shape                    *)
(***************************************************************************)
\* a Watched file as found: absent, or one line that append_watched did not write
FoundWatchedFiles ==
    { <<>>,
      << <<"garbage">> >>,
      << <<" ">> >>,
      << <<"1", "X", ":", "good", ":", "like">> >>,
      << <<"1", ".", "X", ":", "good">> >> }

DottedTitles == { <<"X">>, <<"Y", ":", "Z">>, <<"Mr", ".", "X">> }

InitWatched ==
    /\ catalog = <<>>
    /\ ratings = <<>>
    /\ prefsFile = <<>>
    /\ watchedFile \in FoundWatchedFiles
    /\ watchLaterFile = <<>>
    /\ pc = "idle"
    /\ run = 0
    /\ i = 0
    /\ preferences = EmptyPreferences
    /\ recommended = <<>>
    /\ watched_titles = <<>>
    /\ watch_later_titles = <<>>
    /\ review_text = NoReview
    /\ emotions = <<>>
    /\ log = <<>>
    /\ wlAtStart = <<>>
    /\ acceptedBefore = {}
    /\ notSet = FALSE
    /\ lastWritten = <<>>
    /\ lastRemove = <<>>
    /\ appended = <<>>
    /\ new_movies = <<>>
    /\ prefsBefore = <<>>
    /\ typed = Typed(DottedTitles, UserReviews, Sentiments, {})

NextWatched == AddWatched

SpecWatched == InitWatched /\ [][NextWatched]_vars

\* a line of three colon-separated fields, a "." in the first
WellFormed(line) ==
    /\ Cardinality({k \in 1..Len(line) : line[k] = ":"}) = 2
    /\ \E d \in 1..Len(line) : line[d] = "." /\ \A k \in 1..d : line[k] # ":"

\* the lines found before the first append_watched call
FoundLines == Len(watchedFile) - Len(appended)

\* what was written for the well-formed lines among lines k.. of the file
RECURSIVE WrittenFrom(_)
WrittenFrom(k) ==
    IF k > Len(watchedFile) THEN <<>>
    ELSE (IF WellFormed(watchedFile[k]) THEN <<appended[k - FoundLines]>> ELSE <<>>)
         \o WrittenFrom(k + 1)

\* C19: read_watched drops every line that does not split into exactly three
\* colon-separated fields or whose first field has no ".", and returns every
\* well-formed line, in file order, with the number, title, review and
\* sentiment that were written.
C19_ReadWatched ==
    /\ \A k \in 1..FoundLines : ~WellFormed(watchedFile[k])
    /\ read_watched(watchedFile) = WrittenFrom(FoundLines + 1)

\* a found line dropped, a written line with a colon in its title dropped, and
\* a line whose title has a "." returned as written
C19_Witness ==
    /\ FoundLines = 1
    /\ Len(appended) = 2
    /\ appended[1].title = <<"Y", ":", "Z">>
    /\ appended[2].title = <<"Mr", ".", "X">>
    /\ read_watched(watchedFile) = <<appended[2]>>

\* the acceptances among the first k events of the log
AcceptedUpTo(k) == Cardinality({j \in 1..k : log[j].ev = "accept"})

\* the acceptance logged at k ends the run: the third, or that of the last row
EndsRun(k) == AcceptedUpTo(k) = 3 \/ log[k].idx = Len(catalog)

\* C20: the pause comes after every accepted candidate that is followed by the
\* evaluation of further candidates, never after a rejected candidate and never
\* after the acceptance that ends the run; between two successive review
\* fetches of one run there is always a pause.
C20_Pause ==
    /\ \A k \in 1..(Len(log) - 1) :
         (log[k].ev = "accept" /\ ~EndsRun(k)) => log[k + 1].ev = "sleep"
    /\ \A k \in 1..Len(log) :
         log[k].ev = "sleep" =>
             /\ k > 1
             /\ log[k - 1] = Event(log[k].idx, "accept", "-")
             /\ ~EndsRun(k - 1)
    /\ \A j, k \in 1..Len(log) :
         (j < k /\ log[j].ev = "fetch" /\ log[k].ev = "fetch") =>
             \E m \in (j + 1)..(k - 1) : log[m].ev = "sleep"

====
